---------------------------- MODULE Spec2Model ----------------------------
(***************************************************************************)
(* Model of the OCI block volume provisioner                               *)
(* (src/pkg/provisioner/block/block.go): Provision and Delete, with the    *)
(* helpers they call (roundUpSize, getTags, parseTags, resolveFSType).     *)
(*                                                                         *)
(* Strings are sequences of one-character strings, so that strings.Split,  *)
(* strings.TrimSpace and strings.HasSuffix are computed character by       *)
(* character.  Go maps are functions; a nil map or nil pointer result is   *)
(* the empty set and a non-nil one a singleton set.  int64 values are      *)
(* three limbs <<a, b, c>> of the unsigned 64-bit pattern                  *)
(* a * 2^40 + b * 2^20 + c, so that int64 arithmetic wraps as Go's does.   *)
(***************************************************************************)
EXTENDS Integers, Sequences, FiniteSets, TLC

(***************************************************************************)
(* Bounds of the model.                                                    *)
(***************************************************************************)
\* Longest tag specification string drawn as an input.
MaxTagLen == 11
\* Number of volumes the cloud hands out identifiers for.
MaxVolumes == 2

(***************************************************************************)
(* int64 arithmetic.                                                       *)
(***************************************************************************)
\* The allocation unit passed to roundUpSize, and the base of the two low limbs.
MiB == 1024 * 1024

\* The top limb holds the remaining 64 - 40 = 24 bits.
TopLimb == 16 * MiB

Zero64 == <<0, 0, 0>>
One64 == <<0, 0, 1>>
MaxInt64 == <<(TopLimb \div 2) - 1, MiB - 1, MiB - 1>>

\* n GiB = n * 1024 MiB, for n < 1024.
GiB(n) == <<0, n * 1024, 0>>

\* Go's + on int64: the sum modulo 2^64.
Add64(x, y) ==
    LET c0 == x[3] + y[3]
        b0 == x[2] + y[2] + (c0 \div MiB)
        a0 == x[1] + y[1] + (b0 \div MiB)
    IN  <<a0 % TopLimb, b0 % MiB, c0 % MiB>>

\* Two's complement negation.
Neg64(x) == Add64(<<TopLimb - 1 - x[1], MiB - 1 - x[2], MiB - 1 - x[3]>>, One64)

\* Go's - on int64.
Sub64(x, y) == Add64(x, Neg64(y))

\* The sign bit.
IsNeg64(x) == x[1] >= TopLimb \div 2

\* The unsigned pattern shifted down by one limb.
ShiftLimb(x) == <<x[1] \div MiB, x[1] % MiB, x[2]>>

\* Go's / on int64 by the allocation unit: the quotient truncated toward zero.
\* The only divisor the program passes is 1024*1024, which is the limb base.
DivUnit64(x, u) ==
    IF u # <<0, 1, 0>> THEN Zero64
    ELSE IF IsNeg64(x) THEN Neg64(ShiftLimb(Neg64(x)))
    ELSE ShiftLimb(x)

\* Signed order on int64.
Less64(x, y) ==
    IF IsNeg64(x) # IsNeg64(y) THEN IsNeg64(x)
    ELSE \/ x[1] < y[1]
         \/ x[1] = y[1] /\ x[2] < y[2]
         \/ x[1] = y[1] /\ x[2] = y[2] /\ x[3] < y[3]

\* resource.Quantity.Cmp: 1 when q is larger than other, -1 when smaller.
QuantityCmp(q, other) ==
    IF Less64(other, q) THEN 1 ELSE IF Less64(q, other) THEN -1 ELSE 0

roundUpSize(volumeSizeBytes, allocationUnitBytes) ==
    DivUnit64(Sub64(Add64(volumeSizeBytes, allocationUnitBytes), One64),
              allocationUnitBytes)

(***************************************************************************)
(* Strings.                                                                *)
(***************************************************************************)
RECURSIVE Split(_, _)
\* strings.Split(s, sep) for a one-character separator: the pieces between
\* the separators, one more than there are separators.
Split(s, sep) ==
    IF \A i \in 1..Len(s) : s[i] # sep THEN <<s>>
    ELSE LET i == CHOOSE k \in 1..Len(s) :
                      s[k] = sep /\ \A j \in 1..(k - 1) : s[j] # sep
         IN  <<SubSeq(s, 1, i - 1)>> \o Split(SubSeq(s, i + 1, Len(s)), sep)

RECURSIVE TrimLeft(_)
TrimLeft(s) == IF s # <<>> /\ Head(s) = " " THEN TrimLeft(Tail(s)) ELSE s

RECURSIVE TrimRight(_)
TrimRight(s) ==
    IF s # <<>> /\ s[Len(s)] = " " THEN TrimRight(SubSeq(s, 1, Len(s) - 1)) ELSE s

\* strings.TrimSpace
TrimSpace(s) == TrimRight(TrimLeft(s))

\* strings.HasSuffix
HasSuffix(s, suffix) ==
    /\ Len(s) >= Len(suffix)
    /\ SubSeq(s, Len(s) - Len(suffix) + 1, Len(s)) = suffix

(***************************************************************************)
(* Go maps and errors.                                                     *)
(***************************************************************************)
\* An empty, non-nil map.
EmptyMap == <<>>

\* m[k] = v
MapPut(m, k, v) == [x \in (DOMAIN m) \cup {k} |-> IF x = k THEN v ELSE m[x]]

\* m[k] of a map of strings: the empty string when k is absent.
MapGet(m, k) == IF k \in DOMAIN m THEN m[k] ELSE <<>>

\* The one element of a singleton set (a non-nil result).
TheOne(S) == CHOOSE x \in S : TRUE

\* A nil error.
NoError == [kind |-> "nil", tag |-> <<>>]

\* fmt.Errorf("tag format must follow (<namespace>.)<tagkey>=<value>: %q", tag)
TagFormatError(tag) == [kind |-> "tagformat", tag |-> tag]

(***************************************************************************)
(* The program's constants.                                                *)
(***************************************************************************)
ociVolumeID == "ociVolumeID"
ociVolumeBackupID == "volume.beta.kubernetes.io/oci-volume-source"
ociTagAnnotation == "oraclecloud.com/additional-tags"
defaultTagsEnvVar == "OCI_DEFAULT_TAGS"
volumePrefixEnvVarName == "OCI_VOLUME_NAME_PREFIX"
shortRegionEnvVar == "OCI_SHORT_REGION"
fsType == "fsType"
ReadWriteOnce == "ReadWriteOnce"
ResourceStorage == "storage"
StatusNotFound == 404

(***************************************************************************)
(* State.                                                                  *)
(***************************************************************************)
VARIABLES
    env,                    \* the process environment: name -> [set, value]
    volumeRoundingEnabled,  \* blockProvisioner.volumeRoundingEnabled
    minVolumeSize,          \* blockProvisioner.minVolumeSize
    pvcs,                   \* the claims the controller may ask to provision
    volumes,                \* identifiers of the volumes that exist in the cloud
    issued,                 \* number of identifiers the cloud has handed out
    pvs,                    \* descriptors returned by Provision, kept by the caller
    last                    \* the invocation that returned last

vars == <<env, volumeRoundingEnabled, minVolumeSize, pvcs, volumes, issued, pvs,
          last>>

\* os.Getenv: the empty string when the variable is not set.
Getenv(name) == IF env[name].set THEN env[name].value ELSE <<>>

Unset == [set |-> FALSE, value |-> <<>>]
SetTo(s) == [set |-> TRUE, value |-> s]

(***************************************************************************)
(* Tag resolution.                                                         *)
(***************************************************************************)
NilTags(err) == [defined |-> {}, freeform |-> {}, err |-> err]

RECURSIVE parseTagsLoop(_, _, _)
\* The loop of parseTags over the comma-separated pieces, in order.
parseTagsLoop(tags, defined, freeform) ==
    IF tags = <<>>
    THEN [defined |-> {defined}, freeform |-> {freeform}, err |-> NoError]
    ELSE LET tag == Head(tags)
             parts == Split(tag, "=")
         IN  IF Len(parts) # 2 THEN NilTags(TagFormatError(tag))
             ELSE LET key == parts[1]
                      value == parts[2]
                      keyParts == Split(key, ".")
                  IN  IF Len(keyParts) = 1
                      THEN parseTagsLoop(Tail(tags), defined,
                                         MapPut(freeform, key, value))
                      ELSE IF Len(keyParts) = 2
                      THEN LET namespace == keyParts[1]
                               nskey == keyParts[2]
                               namespaceTags ==
                                   IF namespace \in DOMAIN defined
                                   THEN defined[namespace] ELSE EmptyMap
                           IN  parseTagsLoop(Tail(tags),
                                   MapPut(defined, namespace,
                                          MapPut(namespaceTags, nskey, value)),
                                   freeform)
                      ELSE NilTags(TagFormatError(tag))

\* parseTags without its test for the empty string.
parseTagsNoEmptyCheck(tagStr) ==
    parseTagsLoop(Split(tagStr, ","), EmptyMap, EmptyMap)

parseTags(tagStr) ==
    IF tagStr = <<>>
    THEN [defined |-> {EmptyMap}, freeform |-> {EmptyMap}, err |-> NoError]
    ELSE parseTagsLoop(Split(tagStr, ","), EmptyMap, EmptyMap)

RECURSIVE mergeTags(_, _, _)
\* for tag, value := range tags { target[tag] = value }
mergeTags(target, tags, keys) ==
    IF keys = {} THEN target
    ELSE LET tag == CHOOSE k \in keys : TRUE
         IN  mergeTags(MapPut(target, tag, tags[tag]), tags, keys \ {tag})

RECURSIVE mergeDefinedTagsReplacing(_, _, _)
\* The namespace loop, were it to assign the claim's namespace as a whole.
mergeDefinedTagsReplacing(defaultDefinedTags, definedTags, namespaces) ==
    IF namespaces = {} THEN defaultDefinedTags
    ELSE LET namespace == CHOOSE n \in namespaces : TRUE
         IN  mergeDefinedTagsReplacing(
                 MapPut(defaultDefinedTags, namespace, definedTags[namespace]),
                 definedTags, namespaces \ {namespace})

RECURSIVE mergeDefinedTags(_, _, _)
\* for namespace, tags := range definedTags { ... }
mergeDefinedTags(defaultDefinedTags, definedTags, namespaces) ==
    IF namespaces = {} THEN defaultDefinedTags
    ELSE LET namespace == CHOOSE n \in namespaces : TRUE
             tags == definedTags[namespace]
             present == IF namespace \in DOMAIN defaultDefinedTags
                        THEN defaultDefinedTags[namespace] ELSE EmptyMap
         IN  mergeDefinedTags(
                 MapPut(defaultDefinedTags, namespace,
                        mergeTags(present, tags, DOMAIN tags)),
                 definedTags, namespaces \ {namespace})

getTags(annotations) ==
    LET dflt == parseTags(Getenv(defaultTagsEnvVar))
    IN  IF dflt.err # NoError THEN NilTags(dflt.err)
        ELSE LET req == parseTags(MapGet(annotations, ociTagAnnotation))
             IN  IF req.err # NoError THEN NilTags(req.err)
                 ELSE LET definedTags == TheOne(req.defined)
                          freeformTags == TheOne(req.freeform)
                      IN  [defined |-> {mergeDefinedTags(TheOne(dflt.defined),
                                            definedTags, DOMAIN definedTags)},
                           freeform |-> {mergeTags(TheOne(dflt.freeform),
                                            freeformTags, DOMAIN freeformTags)},
                           err |-> NoError]

(***************************************************************************)
(* Inputs of the tag specification: every substring, up to MaxTagLen       *)
(* characters, of a default and of a per-claim seed string.                *)
(***************************************************************************)
Substrings(s, n) ==
    {SubSeq(s, p[1], p[2]) : p \in
        {q \in (1..(Len(s) + 1)) \X (0..Len(s)) :
            q[2] >= q[1] - 1 /\ q[2] - q[1] + 1 <= n}}

\* "b=1,a=1,n.x=1,n.y=1,n.x.y=1=1"
DefaultTagSeed == <<"b", "=", "1", ",", "a", "=", "1", ",", "n", ".", "x", "=", "1", ",", "n", ".", "y", "=", "1", ",", "n", ".", "x", ".", "y", "=", "1", "=", "1">>

\* "a=2,n.x=2,m.x=2,z,c=2=2,n.x.y=2"
ClaimTagSeed == <<"a", "=", "2", ",", "n", ".", "x", "=", "2", ",", "m", ".", "x", "=", "2", ",", "z", ",", "c", "=", "2", "=", "2", ",", "n", ".", "x", ".", "y", "=", "2">>

DefaultTagInputs == Substrings(DefaultTagSeed, MaxTagLen)
ClaimTagInputs == Substrings(ClaimTagSeed, MaxTagLen)

(***************************************************************************)
(* Calls made on the collaborators (the cloud client, the metadata         *)
(* service), in the order an invocation makes them.                        *)
(***************************************************************************)
\* A call that returns no error: an accessor of the client.
Accessor(op) == [op |-> op, id |-> 0, status |-> 0, err |-> NoError]

\* block.client.BlockStorage().CreateVolume(ctx, request) and what came back:
\* the new volume's identifier, or an error.
CreateVolumeCall(response) ==
    [op |-> "CreateVolume", id |-> response.id, status |-> 0, err |-> response.err]

\* block.client.BlockStorage().DeleteVolume(ctx, request) and what came back.
DeleteVolumeCall(volID, response) ==
    [op |-> "DeleteVolume", id |-> volID,
     status |-> IF response.raw THEN response.status ELSE 0,
     err |-> response.err]

\* block.metadata.Get() and what came back.
MetadataGetCall(response) ==
    [op |-> "metadata.Get", id |-> 0, status |-> 0, err |-> response.err]

\* ctx, cancel := context.WithTimeout(block.client.Context(), block.client.Timeout())
WithTimeoutCalls == <<Accessor("Context"), Accessor("Timeout")>>

CloudError(kind) == [kind |-> kind, tag |-> <<>>]

(***************************************************************************)
(* Provision.                                                              *)
(***************************************************************************)
\* fmt.Errorf("invalid access mode %v specified. Only %v is supported", ...)
AccessModeError(accessMode) == [kind |-> "accessmode", tag |-> <<accessMode>>]

\* fmt.Errorf("could not determine volume size for PVC")
VolumeSizeError == [kind |-> "volumesize", tag |-> <<>>]

\* 1024*1024 as an int64.
AllocationUnit == <<0, 1, 0>>

\* The access mode loop, were it to accept every mode.
unsupportedAccessModeNone(accessModes) == {}

\* The loop over options.PVC.Spec.AccessModes: the first mode that is not
\* ReadWriteOnce, if any.

unsupportedAccessMode(accessModes) ==
    LET bad == {i \in 1..Len(accessModes) : accessModes[i] # ReadWriteOnce}
    IN  IF bad = {} THEN {}
        ELSE {accessModes[CHOOSE i \in bad : \A j \in bad : i <= j]}

\* The size and the capacity Provision settles on: [volSizeMB, capacity].
volumeSize(requested) ==
    IF volumeRoundingEnabled /\ QuantityCmp(minVolumeSize, requested) = 1
    THEN [volSizeMB |-> roundUpSize(minVolumeSize, AllocationUnit),
          capacity |-> minVolumeSize]
    ELSE [volSizeMB |-> roundUpSize(requested, AllocationUnit),
          capacity |-> requested]

\* fmt.Sprintf("%s%s", os.Getenv(volumePrefixEnvVarName), options.PVC.Name)
displayName(options) == Getenv(volumePrefixEnvVarName) \o options.Name

\* The prefix computed after the volume details are built; nothing reads it.
trimmedPrefix ==
    LET prefix == TrimSpace(Getenv(volumePrefixEnvVarName))
    IN  IF prefix # <<>> /\ ~HasSuffix(prefix, <<"-">>)
        THEN prefix \o <<"-">> ELSE prefix

resolveFSType(options) ==
    IF fsType \in DOMAIN options.Parameters THEN options.Parameters[fsType]
    ELSE <<"e", "x", "t", "4">>

\* The region step, were it to ask the metadata service first.
resolveRegionAlwaysQuery(metadataResponse) ==
    [calls |-> <<MetadataGetCall(metadataResponse)>>,
     region |-> IF env[shortRegionEnvVar].set THEN env[shortRegionEnvVar].value
                ELSE metadataResponse.region,
     err |-> IF env[shortRegionEnvVar].set THEN NoError ELSE metadataResponse.err]

\* The region step: [calls, region, err].
resolveRegion(metadataResponse) ==
    IF env[shortRegionEnvVar].set
    THEN [calls |-> <<>>, region |-> env[shortRegionEnvVar].value, err |-> NoError]
    ELSE [calls |-> <<MetadataGetCall(metadataResponse)>>,
          region |-> metadataResponse.region,
          err |-> metadataResponse.err]

\* The descriptor, were its annotation not to carry the new identifier.
newPersistentVolumeUnlinked(options, ad, volumeId, capacity, region) ==
    [Name |-> volumeId,
     Annotations |-> (ociVolumeID :> 0),
     Labels |-> [region |-> region, zone |-> ad],
     ReclaimPolicy |-> options.ReclaimPolicy,
     AccessModes |-> options.AccessModes,
     Capacity |-> capacity,
     FSType |-> resolveFSType(options)]

\* The descriptor Provision assembles.
newPersistentVolume(options, ad, volumeId, capacity, region) ==
    [Name |-> volumeId,
     Annotations |-> (ociVolumeID :> volumeId),
     Labels |-> [region |-> region, zone |-> ad],
     ReclaimPolicy |-> options.ReclaimPolicy,
     AccessModes |-> options.AccessModes,
     Capacity |-> capacity,
     FSType |-> resolveFSType(options)]

\* return nil, err
ProvisionFailed(calls, request, err) ==
    [calls |-> calls, request |-> request, pv |-> {}, err |-> err]

\* What one invocation of Provision does and returns, given what the
\* collaborators answer: [calls, request, pv, err].
Provision(options, ad, createResponse, metadataResponse) ==
    LET bad == unsupportedAccessMode(options.AccessModes)
    IN
    IF bad # {} THEN ProvisionFailed(<<>>, {}, AccessModeError(TheOne(bad)))
    ELSE IF ResourceStorage \notin DOMAIN options.Requests
    THEN ProvisionFailed(<<>>, {}, VolumeSizeError)
    ELSE
    LET size == volumeSize(options.Requests[ResourceStorage])
        calls1 == <<Accessor("CompartmentOCID"), Accessor("CompartmentOCID")>>
        tags == getTags(options.Annotations)
    IN
    IF tags.err # NoError THEN ProvisionFailed(calls1, {}, tags.err)
    ELSE
    LET volumeDetails ==
            [AvailabilityDomain |-> ad,
             DisplayName |-> displayName(options),
             SizeInMBs |-> size.volSizeMB,
             DefinedTags |-> TheOne(tags.defined),
             FreeformTags |-> TheOne(tags.freeform),
             SourceDetails |->
                 IF ociVolumeBackupID \in DOMAIN options.Annotations
                 THEN {options.Annotations[ociVolumeBackupID]} ELSE {}]
        calls2 == calls1 \o WithTimeoutCalls \o
                  <<Accessor("BlockStorage"), CreateVolumeCall(createResponse)>>
    IN
    IF createResponse.err # NoError
    THEN ProvisionFailed(calls2, {volumeDetails}, createResponse.err)
    ELSE
    LET region == resolveRegion(metadataResponse)
        calls3 == calls2 \o region.calls
    IN
    IF region.err # NoError
    THEN ProvisionFailed(calls3, {volumeDetails}, region.err)
    ELSE [calls |-> calls3,
          request |-> {volumeDetails},
          pv |-> {newPersistentVolume(options, ad, createResponse.id,
                                      size.capacity, region.region)},
          err |-> NoError]

(***************************************************************************)
(* Delete.                                                                 *)
(***************************************************************************)
\* errors.New("volumeid annotation not found on PV")
MissingVolumeIDError == [kind |-> "novolumeid", tag |-> <<>>]

\* The result of Delete, were not-found not to be tolerated.
deleteOutcomeStrict(response) == response.err

\* The result of Delete, were every answered call to count as success.
deleteOutcomeSwallow(response) ==
    IF response.raw THEN NoError ELSE response.err

\* What Delete returns once DeleteVolume has answered.
deleteOutcome(response) ==
    IF response.raw /\ response.status = StatusNotFound THEN NoError
    ELSE response.err

\* Delete, were it to fall back on the descriptor's name.
DeleteGuessing(volume, response) ==
    LET volID == IF ociVolumeID \in DOMAIN volume.Annotations
                 THEN volume.Annotations[ociVolumeID] ELSE volume.Name
    IN  [calls |-> WithTimeoutCalls \o
                   <<Accessor("BlockStorage"), DeleteVolumeCall(volID, response)>>,
         request |-> {[VolumeId |-> volID]},
         err |-> deleteOutcome(response)]

\* What one invocation of Delete does and returns, given what the cloud
\* answers: [calls, request, err].
Delete(volume, response) ==
    IF ociVolumeID \notin DOMAIN volume.Annotations
    THEN [calls |-> <<>>, request |-> {}, err |-> MissingVolumeIDError]
    ELSE LET volID == volume.Annotations[ociVolumeID]
         IN  [calls |-> WithTimeoutCalls \o
                        <<Accessor("BlockStorage"), DeleteVolumeCall(volID, response)>>,
              request |-> {[VolumeId |-> volID]},
              err |-> deleteOutcome(response)]

(***************************************************************************)
(* What the collaborators may answer.                                      *)
(***************************************************************************)
\* CreateVolume: a new identifier while the cloud still hands them out, or an
\* error (quota, timeout, ...).
CreateResponses ==
    (IF issued < MaxVolumes THEN {[id |-> issued + 1, err |-> NoError]} ELSE {})
    \cup {[id |-> 0, err |-> CloudError(k)] : k \in {"quota", "timeout"}}

\* metadata.Get: the region, or an error.
MetadataResponses ==
    {[region |-> <<"r", "2">>, err |-> NoError],
     [region |-> <<>>, err |-> CloudError("metadata")]}

\* DeleteVolume: success when the volume exists; not-found (which the cloud
\* also answers on an authentication failure); another error status; or no
\* response at all (timeout, network).
DeleteResponses(volID) ==
    (IF volID \in volumes
     THEN {[raw |-> TRUE, status |-> 204, err |-> NoError]} ELSE {})
    \cup {[raw |-> TRUE, status |-> StatusNotFound, err |-> CloudError("notfound")],
          [raw |-> TRUE, status |-> 500, err |-> CloudError("server")],
          [raw |-> FALSE, status |-> 0, err |-> CloudError("timeout")]}

AvailabilityDomains == {"AD-1"}

\* A descriptor that was not made by Provision: it carries no identifier.
ForeignPVs ==
    {[Name |-> 0, Annotations |-> EmptyMap,
      Labels |-> [region |-> <<"r", "1">>, zone |-> "AD-1"],
      ReclaimPolicy |-> "Delete", AccessModes |-> <<ReadWriteOnce>>,
      Capacity |-> GiB(1), FSType |-> <<"e", "x", "t", "4">>]}

(***************************************************************************)
(* Actions.                                                                *)
(***************************************************************************)
\* The identifiers of the volumes the calls created.
Created(calls) ==
    {calls[i].id : i \in {j \in 1..Len(calls) :
        calls[j].op = "CreateVolume" /\ calls[j].err = NoError}}

\* The identifiers of the volumes the calls deleted.
Removed(calls) ==
    {calls[i].id : i \in {j \in 1..Len(calls) :
        calls[j].op = "DeleteVolume" /\ calls[j].err = NoError}}

\* The controller calls Provision for a claim.
ProvisionCall ==
    \E options \in pvcs, ad \in AvailabilityDomains,
       createResponse \in CreateResponses, metadataResponse \in MetadataResponses :
        LET r == Provision(options, ad, createResponse, metadataResponse)
        IN  /\ volumes' = volumes \cup Created(r.calls)
            /\ issued' = issued + Cardinality(Created(r.calls))
            /\ pvs' = pvs \cup r.pv
            /\ last' = [op |-> "Provision", options |-> options, ad |-> ad,
                        calls |-> r.calls, request |-> r.request,
                        pv |-> r.pv, err |-> r.err]
            /\ UNCHANGED <<env, volumeRoundingEnabled, minVolumeSize, pvcs>>

\* The controller calls Delete with a descriptor it holds.
DeleteCall ==
    \E volume \in pvs \cup ForeignPVs :
        \E response \in DeleteResponses(IF ociVolumeID \in DOMAIN volume.Annotations
                                        THEN volume.Annotations[ociVolumeID]
                                        ELSE volume.Name) :
            LET r == Delete(volume, response)
            IN  /\ volumes' = volumes \ Removed(r.calls)
                /\ last' = [op |-> "Delete", volume |-> {volume},
                            again |-> /\ last.op = "Delete"
                                      /\ last.volume = {volume}
                                      /\ last.err = NoError,
                            calls |-> r.calls, request |-> r.request, err |-> r.err]
                /\ UNCHANGED <<env, volumeRoundingEnabled, minVolumeSize, pvcs,
                               issued, pvs>>

\* A user deletes a volume out of band.
UserDeletesVolume ==
    \E id \in volumes :
        /\ volumes' = volumes \ {id}
        /\ UNCHANGED <<env, volumeRoundingEnabled, minVolumeSize, pvcs, issued,
                       pvs, last>>

Next == ProvisionCall \/ DeleteCall \/ UserDeletesVolume

NoInvocation ==
    [op |-> "none", calls |-> <<>>, request |-> {}, err |-> NoError]

InitRun ==
    /\ volumes = {}
    /\ issued = 0
    /\ pvs = {}
    /\ last = NoInvocation

(***************************************************************************)
(* Spec: the life of volumes, from claims that pass or fail each check.    *)
(***************************************************************************)
TagAnnotation(s) == (ociTagAnnotation :> s)

BaseClaim ==
    [Name |-> <<"p", "v", "c">>,
     AccessModes |-> <<ReadWriteOnce>>,
     Requests |-> (ResourceStorage :> GiB(1)),
     Annotations |-> EmptyMap,
     Parameters |-> EmptyMap,
     ReclaimPolicy |-> "Delete"]

LifecycleClaims ==
    {BaseClaim}
    \cup {[BaseClaim EXCEPT !.AccessModes = m] :
            m \in {<<"ReadOnlyMany">>, <<ReadWriteOnce, "ReadWriteMany">>}}
    \cup {[BaseClaim EXCEPT !.Requests = EmptyMap]}
    \cup {[BaseClaim EXCEPT !.Annotations = a] :
            a \in {TagAnnotation(<<"a", "=", "2", ",", "n", ".", "y", "=", "2">>), TagAnnotation(<<"n", ".", "x", ".", "y", "=", "2">>),
                   (ociVolumeBackupID :> <<"b", "k">>)}}
    \cup {[BaseClaim EXCEPT !.Parameters = (fsType :> <<"x", "f", "s">>)]}
    \cup {[BaseClaim EXCEPT !.AccessModes = <<"ReadOnlyMany">>,
                            !.Annotations = TagAnnotation(<<"n", ".", "x", ".", "y", "=", "2">>)]}

Init ==
    /\ \E tags \in {Unset, SetTo(<<"n", ".", "x", "=", "1">>), SetTo(<<"a", "=", "1", "=", "1">>)},
          region \in {Unset, SetTo(<<"r", "1">>)} :
            env = (defaultTagsEnvVar :> tags) @@ (volumePrefixEnvVarName :> Unset)
                  @@ (shortRegionEnvVar :> region)
    /\ volumeRoundingEnabled = TRUE
    /\ minVolumeSize = GiB(50)
    /\ pvcs = LifecycleClaims
    /\ InitRun

Spec == Init /\ [][Next]_vars

(***************************************************************************)
(* SpecRequest: the create-volume request Provision builds, over requested *)
(* sizes around the allocation unit, the floor and the int64 range, and    *)
(* over name prefixes with and without blanks and separator.               *)
(***************************************************************************)
SizeInputs ==
    {One64, <<0, 0, MiB - 1>>, AllocationUnit, <<0, 1, 1>>,
     GiB(10), GiB(50),
     Sub64(MaxInt64, <<0, 0, MiB - 1>>), Sub64(MaxInt64, <<0, 0, MiB - 2>>),
     MaxInt64}

SizeClaims == {[BaseClaim EXCEPT !.Requests = (ResourceStorage :> c)] : c \in SizeInputs}

PrefixInputs ==
    {Unset, SetTo(<<" ">>), SetTo(<<"k">>), SetTo(<<"k", "-">>),
     SetTo(<<" ", "k", " ">>)}

InitRequest ==
    /\ \E prefix \in PrefixInputs :
            env = (defaultTagsEnvVar :> Unset) @@ (volumePrefixEnvVarName :> prefix)
                  @@ (shortRegionEnvVar :> SetTo(<<"r", "1">>))
    /\ volumeRoundingEnabled \in BOOLEAN
    /\ minVolumeSize = GiB(50)
    /\ pvcs = SizeClaims
    /\ InitRun

NextRequest == ProvisionCall

SpecRequest == InitRequest /\ [][NextRequest]_vars

(***************************************************************************)
(* SpecTags: getTags over the default and per-claim tag specifications.    *)
(***************************************************************************)
\* getTags is applied, once in a run, to a claim's annotations.
ResolveTags ==
    \E annotations \in {EmptyMap} \cup {TagAnnotation(t) : t \in ClaimTagInputs} :
        LET r == getTags(annotations)
        IN  /\ last = NoInvocation
            /\ last' = [op |-> "getTags", annotations |-> annotations,
                        calls |-> <<>>, request |-> {}, tags |-> r, err |-> r.err]
            /\ UNCHANGED <<env, volumeRoundingEnabled, minVolumeSize, pvcs,
                           volumes, issued, pvs>>

InitTags ==
    /\ \E tags \in {Unset} \cup {SetTo(t) : t \in DefaultTagInputs} :
            env = (defaultTagsEnvVar :> tags) @@ (volumePrefixEnvVarName :> Unset)
                  @@ (shortRegionEnvVar :> Unset)
    /\ volumeRoundingEnabled = TRUE
    /\ minVolumeSize = GiB(50)
    /\ pvcs = {}
    /\ InitRun

NextTags == ResolveTags

SpecTags == InitTags /\ [][NextTags]_vars

(***************************************************************************)
(* Vocabulary of the properties, read off the last invocation.             *)
(***************************************************************************)
\* The calls of the last invocation to the operation op.
CallsTo(op) == {i \in 1..Len(last.calls) : last.calls[i].op = op}

\* The number of times character c occurs in s.
Count(s, c) == Cardinality({i \in 1..Len(s) : s[i] = c})

\* The comma-separated pieces of a tag specification, each as <<first, last>>
\* positions of a maximal run without a comma (last = first - 1: an empty piece).
PieceBounds(s) ==
    {p \in (1..(Len(s) + 1)) \X (0..Len(s)) :
        /\ p[2] >= p[1] - 1
        /\ \A i \in p[1]..p[2] : s[i] # ","
        /\ (p[1] = 1 \/ s[p[1] - 1] = ",")
        /\ (p[2] = Len(s) \/ s[p[2] + 1] = ",")}

PieceAt(s, p) == SubSeq(s, p[1], p[2])

\* The key of a piece with one '=': what stands before it; its value: what follows.
EqualsAt(piece) == CHOOSE i \in 1..Len(piece) : piece[i] = "="
KeyOf(piece) == SubSeq(piece, 1, EqualsAt(piece) - 1)
ValueOf(piece) == SubSeq(piece, EqualsAt(piece) + 1, Len(piece))

\* Exactly one '=', and a key of at most two '.'-separated segments.
WellFormedPiece(piece) ==
    /\ Count(piece, "=") = 1
    /\ Count(KeyOf(piece), ".") <= 1

WellFormedSpec(s) ==
    s = <<>> \/ \A p \in PieceBounds(s) : WellFormedPiece(PieceAt(s, p))

\* The first piece of s that is not well formed.
FirstBadPiece(s) ==
    LET bad == {p \in PieceBounds(s) : ~WellFormedPiece(PieceAt(s, p))}
    IN  PieceAt(s, CHOOSE p \in bad : \A q \in bad : p[1] <= q[1])

\* What the pieces of a well-formed s say: the piece's place, key and value.
Entries(s) ==
    IF s = <<>> THEN {}
    ELSE {[pos |-> p[1], key |-> KeyOf(PieceAt(s, p)),
           value |-> ValueOf(PieceAt(s, p))] : p \in PieceBounds(s)}

\* A key without '.' is a free-form tag.
FreeformEntries(s) == {e \in Entries(s) : Count(e.key, ".") = 0}

\* A key with one '.' is a namespace, the '.', and a key in the namespace.
DotAt(key) == CHOOSE i \in 1..Len(key) : key[i] = "."
NamespaceOf(key) == SubSeq(key, 1, DotAt(key) - 1)
NameOf(key) == SubSeq(key, DotAt(key) + 1, Len(key))
DefinedEntries(s) == {e \in Entries(s) : Count(e.key, ".") = 1}

FreeformKeys(s) == {e.key : e \in FreeformEntries(s)}
Namespaces(s) == {NamespaceOf(e.key) : e \in DefinedEntries(s)}
NamespaceKeys(s, ns) ==
    {NameOf(e.key) : e \in {d \in DefinedEntries(s) : NamespaceOf(d.key) = ns}}

\* The value the last of the entries es gives.
LastValue(es) == (CHOOSE e \in es : \A f \in es : f.pos <= e.pos).value

FreeformValue(s, k) == LastValue({e \in FreeformEntries(s) : e.key = k})
DefinedValue(s, ns, k) ==
    LastValue({e \in DefinedEntries(s) :
                    NamespaceOf(e.key) = ns /\ NameOf(e.key) = k})

DefaultSpec == Getenv(defaultTagsEnvVar)
ClaimSpec(annotations) == MapGet(annotations, ociTagAnnotation)

\* The ceiling of a non-negative byte count over 1 MiB, computed without
\* wrap-around: the whole MiB, and one more when bytes remain.
CeilMiB(x) == Add64(ShiftLimb(x), IF x[3] > 0 THEN One64 ELSE Zero64)

(***************************************************************************)
(* Claims about Provision and Delete (Spec).                               *)
(***************************************************************************)
\* The request is one Provision must reject before the cloud: a mode other
\* than ReadWriteOnce, no storage request, or a malformed tag specification.
MustReject(options) ==
    \/ \E i \in 1..Len(options.AccessModes) : options.AccessModes[i] # ReadWriteOnce
    \/ ResourceStorage \notin DOMAIN options.Requests
    \/ ~WellFormedSpec(DefaultSpec)
    \/ ~WellFormedSpec(ClaimSpec(options.Annotations))

\* C1: whenever Provision is given a request with an unsupported access mode,
\* without a storage-capacity request, or with a malformed default or
\* per-claim tag string, it returns an error and no descriptor, and the
\* invocation has issued no create-volume call.
C1_RejectedBeforeCreate ==
    (last.op = "Provision" /\ MustReject(last.options)) =>
        /\ last.err # NoError
        /\ last.pv = {}
        /\ CallsTo("CreateVolume") = {}
        /\ last.request = {}

\* A claim with a supported mode and a size is rejected for its malformed
\* tag annotation alone, after the client's accessors were already used.
C1_Witness ==
    /\ last.op = "Provision"
    /\ \A i \in 1..Len(last.options.AccessModes) :
            last.options.AccessModes[i] = ReadWriteOnce
    /\ ResourceStorage \in DOMAIN last.options.Requests
    /\ WellFormedSpec(DefaultSpec)
    /\ ~WellFormedSpec(ClaimSpec(last.options.Annotations))
    /\ last.err.kind = "tagformat"
    /\ last.calls # <<>>

\* The descriptor Delete was given carries the volume-identifier annotation.
HasVolumeID(volume) == ociVolumeID \in DOMAIN volume.Annotations

\* The status of the response to the invocation's last call (0: none).
LastStatus == IF last.calls = <<>> THEN 0 ELSE last.calls[Len(last.calls)].status

\* C2: for a descriptor with the volume-identifier annotation, whenever the
\* delete-volume response has the not-found status Delete returns nil; so a
\* Delete that follows a successful Delete of the same descriptor and gets
\* not-found succeeds as well.
C2_DeleteNotFoundSucceeds ==
    (/\ last.op = "Delete"
     /\ HasVolumeID(TheOne(last.volume))
     /\ LastStatus = StatusNotFound) => last.err = NoError

\* The second of two Deletes of one descriptor: the first returned nil and
\* removed the volume, the second got not-found and returned nil.
C2_Witness ==
    /\ last.op = "Delete"
    /\ last.again
    /\ HasVolumeID(TheOne(last.volume))
    /\ TheOne(last.volume).Annotations[ociVolumeID] \notin volumes
    /\ LastStatus = StatusNotFound
    /\ last.err = NoError

\* C3: Delete of a descriptor without the volume-identifier annotation
\* returns the missing-identifier error, which no cloud call returns, and
\* makes no call on the cloud client at all.
C3_DeleteWithoutIdentifier ==
    (last.op = "Delete" /\ ~HasVolumeID(TheOne(last.volume))) =>
        /\ last.err = MissingVolumeIDError
        /\ last.err.kind \notin {"nil", "notfound", "server", "timeout", "quota"}
        /\ last.calls = <<>>
        /\ last.request = {}

C3_Witness ==
    /\ last.op = "Delete"
    /\ ~HasVolumeID(TheOne(last.volume))
    /\ last.err.kind = "novolumeid"
    /\ pvs # {}

\* C8: a successful Provision returns a descriptor whose volume-identifier
\* annotation is the identifier its create-volume call returned; every
\* descriptor the caller holds carries an identifier the cloud handed out;
\* and a Delete given such a descriptor asks the cloud to delete exactly the
\* volume of that identifier.
C8_IdentifierLinksDescriptorToVolume ==
    /\ (last.op = "Provision" /\ last.err = NoError) =>
            /\ Cardinality(last.pv) = 1
            /\ HasVolumeID(TheOne(last.pv))
            /\ \E i \in CallsTo("CreateVolume") :
                    /\ last.calls[i].err = NoError
                    /\ TheOne(last.pv).Annotations[ociVolumeID] = last.calls[i].id
    /\ \A pv \in pvs : HasVolumeID(pv) /\ pv.Annotations[ociVolumeID] \in 1..issued
    /\ (last.op = "Delete" /\ HasVolumeID(TheOne(last.volume))) =>
            /\ last.request = {[VolumeId |-> TheOne(last.volume).Annotations[ociVolumeID]]}
            /\ \A i \in CallsTo("DeleteVolume") :
                    last.calls[i].id = TheOne(last.volume).Annotations[ociVolumeID]
            /\ CallsTo("DeleteVolume") # {}

\* A descriptor made by Provision for the second volume is deleted, and the
\* cloud removes that volume and not the first.
C8_Witness ==
    /\ last.op = "Delete"
    /\ TheOne(last.volume) \in pvs
    /\ TheOne(last.volume).Annotations[ociVolumeID] = 2
    /\ last.err = NoError
    /\ LastStatus = 204
    /\ volumes = {1}

\* C9: a Provision makes at most one create-volume call and a Delete at most
\* one delete-volume call; when create-volume fails Provision returns that
\* error and no descriptor; when delete-volume fails with a response that is
\* not not-found, Delete returns that error.
C9_NoRetryNoRewriting ==
    /\ Cardinality(CallsTo("CreateVolume")) <= 1
    /\ Cardinality(CallsTo("DeleteVolume")) <= 1
    /\ last.op = "Provision" =>
            \A i \in CallsTo("CreateVolume") :
                last.calls[i].err # NoError =>
                    last.err = last.calls[i].err /\ last.pv = {}
    /\ last.op = "Delete" =>
            \A i \in CallsTo("DeleteVolume") :
                (last.calls[i].err # NoError /\ last.calls[i].status # StatusNotFound)
                    => last.err = last.calls[i].err

\* A Delete whose delete-volume call failed with a server error status.
C9_Witness ==
    /\ last.op = "Delete"
    /\ LastStatus = 500
    /\ last.err.kind = "server"

\* C10: a Provision that fails returns an error and no descriptor (and one
\* that succeeds a descriptor and no error).  The metadata service is asked
\* only after a create-volume call that succeeded, and never when the region
\* override is set, in which case the descriptor carries the override; when
\* it is not set and create-volume succeeded the metadata service is asked
\* once, and if it fails Provision returns its error and no descriptor, makes
\* no delete-volume call, and no descriptor the caller holds names the
\* volume just created.
C10_RegionStepAndOrphan ==
    last.op = "Provision" =>
        /\ (last.err # NoError) <=> (last.pv = {})
        /\ \A i \in CallsTo("metadata.Get") :
                i = Len(last.calls) /\
                \E j \in CallsTo("CreateVolume") : j < i /\ last.calls[j].err = NoError
        /\ env[shortRegionEnvVar].set =>
                /\ CallsTo("metadata.Get") = {}
                /\ \A pv \in last.pv : pv.Labels.region = env[shortRegionEnvVar].value
        /\ (~env[shortRegionEnvVar].set /\ Created(last.calls) # {}) =>
                /\ Cardinality(CallsTo("metadata.Get")) = 1
                /\ \A i \in CallsTo("metadata.Get") :
                        IF last.calls[i].err # NoError
                        THEN /\ last.err = last.calls[i].err
                             /\ last.pv = {}
                             /\ CallsTo("DeleteVolume") = {}
                             /\ \A pv \in pvs : pv.Name \notin Created(last.calls)
                        ELSE /\ last.err = NoError
                             /\ \A pv \in last.pv : pv.Labels.region = <<"r", "2">>

\* The volume was created, the metadata service failed, and the volume is
\* still in the cloud with no descriptor for it.
C10_Witness ==
    /\ last.op = "Provision"
    /\ ~env[shortRegionEnvVar].set
    /\ Created(last.calls) # {}
    /\ last.err.kind = "metadata"
    /\ last.pv = {}
    /\ Created(last.calls) \subseteq volumes
    /\ \A pv \in pvs : pv.Name \notin Created(last.calls)

(***************************************************************************)
(* Claims about the create-volume request (SpecRequest).                   *)
(***************************************************************************)
\* The capacity Provision is to settle on: the floor when rounding is enabled
\* and the request is strictly below the floor, the request otherwise.
EffectiveCapacity(r) ==
    IF volumeRoundingEnabled /\ Less64(r, minVolumeSize) THEN minVolumeSize ELSE r

\* C4: for every positive requested capacity, a successful Provision sends
\* the ceiling of the effective capacity over 1 MiB as the size of the
\* create-volume request and records the effective capacity in the descriptor.
C4_SizeIsCeilingOfCapacity ==
    (/\ last.op = "Provision"
     /\ last.err = NoError
     /\ Less64(Zero64, last.options.Requests[ResourceStorage])) =>
        LET c == EffectiveCapacity(last.options.Requests[ResourceStorage])
        IN  /\ TheOne(last.request).SizeInMBs = CeilMiB(c)
            /\ TheOne(last.pv).Capacity = c

\* The same, for the capacities whose sum with the allocation unit stays
\* within int64: at most 2^63 - 2^20.
C4_HoldsBelowOverflow ==
    (/\ last.op = "Provision"
     /\ last.err = NoError
     /\ Less64(Zero64, last.options.Requests[ResourceStorage])
     /\ ~Less64(Sub64(MaxInt64, <<0, 0, MiB - 1>>),
                last.options.Requests[ResourceStorage])) =>
        LET c == EffectiveCapacity(last.options.Requests[ResourceStorage])
        IN  /\ TheOne(last.request).SizeInMBs = CeilMiB(c)
            /\ TheOne(last.pv).Capacity = c

\* C7: the display name of the create-volume request is the configured
\* prefix, trimmed and with the separator appended when it is not empty and
\* does not end in it, followed by the claim's name.
C7_DisplayNameHasNormalisedPrefix ==
    (last.op = "Provision" /\ last.request # {}) =>
        TheOne(last.request).DisplayName = trimmedPrefix \o last.options.Name

(***************************************************************************)
(* Claims about tag resolution (SpecTags).                                 *)
(***************************************************************************)
\* C5: for two well-formed specifications getTags returns, for every
\* free-form key and every key of every namespace, the per-claim value when
\* the per-claim specification sets it and the default value otherwise, and
\* nothing else: a namespace of the claim that the defaults lack is there,
\* and so is every default key the claim does not mention.
C5_ClaimTagsOverDefaults ==
    (/\ last.op = "getTags"
     /\ WellFormedSpec(DefaultSpec)
     /\ WellFormedSpec(ClaimSpec(last.annotations))) =>
        LET d == DefaultSpec
            a == ClaimSpec(last.annotations)
        IN  /\ last.tags.err = NoError
            /\ Cardinality(last.tags.freeform) = 1
            /\ Cardinality(last.tags.defined) = 1
            /\ LET freeform == TheOne(last.tags.freeform)
                   defined == TheOne(last.tags.defined)
               IN  /\ DOMAIN freeform = FreeformKeys(a) \cup FreeformKeys(d)
                   /\ \A k \in DOMAIN freeform :
                        freeform[k] = IF k \in FreeformKeys(a)
                                      THEN FreeformValue(a, k)
                                      ELSE FreeformValue(d, k)
                   /\ DOMAIN defined = Namespaces(a) \cup Namespaces(d)
                   /\ \A ns \in DOMAIN defined :
                        /\ DOMAIN defined[ns] =
                                NamespaceKeys(a, ns) \cup NamespaceKeys(d, ns)
                        /\ \A k \in DOMAIN defined[ns] :
                            defined[ns][k] = IF k \in NamespaceKeys(a, ns)
                                             THEN DefinedValue(a, ns, k)
                                             ELSE DefinedValue(d, ns, k)

\* Defaults "n.x=1,n.y=1" under the claim's "n.x=2,m.x=2": x of n is
\* overwritten, its sibling y is kept, and namespace m is created.
C5_Witness ==
    /\ last.op = "getTags"
    /\ DefaultSpec = <<"n", ".", "x", "=", "1", ",", "n", ".", "y", "=", "1">>
    /\ ClaimSpec(last.annotations) = <<"n", ".", "x", "=", "2", ",", "m", ".", "x", "=", "2">>
    /\ last.tags.err = NoError
    /\ TheOne(last.tags.defined) =
            (<<"n">> :> ((<<"x">> :> <<"2">>) @@ (<<"y">> :> <<"1">>)))
            @@ (<<"m">> :> (<<"x">> :> <<"2">>))
    /\ TheOne(last.tags.freeform) = EmptyMap

\* C6: two empty specifications give empty, non-nil maps and no error; two
\* well-formed ones give no error; and when a piece of either is not well
\* formed getTags returns nil maps and the format error that names the first
\* such piece (of the defaults, else of the claim) as it is written.
C6_FormatErrorNamesPiece ==
    last.op = "getTags" =>
        LET d == DefaultSpec
            a == ClaimSpec(last.annotations)
        IN  /\ (d = <<>> /\ a = <<>>) =>
                    /\ last.tags.err = NoError
                    /\ last.tags.defined = {EmptyMap}
                    /\ last.tags.freeform = {EmptyMap}
            /\ (WellFormedSpec(d) /\ WellFormedSpec(a)) =>
                    /\ last.tags.err = NoError
                    /\ last.tags.defined # {}
                    /\ last.tags.freeform # {}
            /\ ~(WellFormedSpec(d) /\ WellFormedSpec(a)) =>
                    /\ last.tags.err =
                            TagFormatError(IF ~WellFormedSpec(d) THEN FirstBadPiece(d)
                                           ELSE FirstBadPiece(a))
                    /\ last.tags.defined = {}
                    /\ last.tags.freeform = {}

\* Well-formed defaults and a claim specification whose malformed piece
\* stands between two well-formed ones: the error names the piece in between.
C6_Witness ==
    /\ last.op = "getTags"
    /\ DefaultSpec # <<>>
    /\ WellFormedSpec(DefaultSpec)
    /\ LET a == ClaimSpec(last.annotations)
       IN  \E p \in PieceBounds(a), b \in PieceBounds(a), q \in PieceBounds(a) :
                /\ p[1] < b[1] /\ b[1] < q[1]
                /\ WellFormedPiece(PieceAt(a, p))
                /\ ~WellFormedPiece(PieceAt(a, b))
                /\ WellFormedPiece(PieceAt(a, q))
                /\ last.tags.err = TagFormatError(PieceAt(a, b))
    /\ last.tags.defined = {}
    /\ last.tags.freeform = {}

=============================================================================
